---------------------------- MODULE Spec2Model ----------------------------
(***************************************************************************)
(* A model of topngx (gsquire/topngx): the format compiler (nginx.rs), the *)
(* record extraction and the run/tail control flow (main.rs) and the       *)
(* processor with its queries and report (processor.rs).                   *)
(*                                                                         *)
(* Strings that the program inspects character by character (templates,    *)
(* patterns, log lines, captures) are sequences of one-character strings.  *)
(***************************************************************************)
EXTENDS Integers, Sequences, FiniteSets, Bags, TLC

VARIABLES
    \* ---- format compiler (nginx.rs)
    template,       \* the format string handed to format_to_pattern
    fmtPc,          \* "input" | "compiled"
    matcher,        \* the Result<Regex> of format_to_pattern
    variables,      \* the Result<String> of available_variables
    \* ---- continuous mode (main.rs, tail)
    file,           \* the bytes of the followed access log
    appends,        \* number of writes the log writer has made
    len,            \* `len`: the Tailer's byte offset into the file
    attachLen,      \* the end-of-file offset captured by metadata() at attach
    pattern,        \* `pattern`: the Regex compiled from opts.format
    running,        \* the shared AtomicBool `running`
    lineCh,         \* the unbounded line channel (tx, rx): lines in flight
    mainPc,         \* position of the main thread inside tail()
    mainRet,        \* what tail() returned
    tailerPc,       \* position of the reader thread
    tailerRet,      \* what the reader thread's closure returned
    store,          \* the rows of table `log`
    received,       \* the lines the main loop has taken from the line channel
    pollsAfterStop, \* poll attempts the Tailer made while the stop send was pending
    eventsAfterCancel, \* loop events handled after `running` became false
    ioError,        \* whether any I/O, store or terminal operation has failed
    \* ---- record extraction (main.rs, parse_input)
    exLine,         \* the line handed to the closure of parse_input
    captures,       \* the captures of a matched line: group name -> text
    exFields,       \* processor.fields
    record,         \* the record built for the line
    exPc,           \* "line" | "unmatched" | "matched" | "extracted"
    \* ---- run() and static mode (main.rs)
    runOpts,        \* opts.access_log and opts.follow
    stdinTty,       \* whether standard input is a terminal
    source,         \* what reading the input source yields, item by item
    openFails,      \* whether File::open of the named file fails
    access_log,     \* `access_log`: the resolved source
    runPc,          \* position inside run()
    runRet,         \* what run() returned
    lines,          \* `lines`: the collected lines
    slots,          \* per line, what the extraction worker made of it
    finished,       \* the indices of the lines in the order the workers finished
    records,        \* `records`: the collected Vec handed to process()
    runStore,       \* the rows inserted into table `log`, in order
    effects,        \* what run() has done to the outside, in order
    \* ---- processor (processor.rs, subcommands of main.rs)
    qOpts,          \* group_by, having, order_by, limit of the options
    subcommand,     \* the subcommand and its fields
    processor,      \* the Processor: fields and queries
    table,          \* the rows of table `log`, a bag
    results,        \* the result set of each query at the last report
    output,         \* the lines the last report wrote
    qPc,            \* "start" | "built" | "reported"
    \* generate_processor, step by step
    genOpts,        \* the options
    genCommand,     \* the subcommand and its arguments
    genProcessor,   \* the Processor: fields, columns, placeholders, queries
    logTable,       \* the column names of the table `log`, once created
    indexes,        \* the number of indexes created on it
    genRet,         \* "none" | "Ok" | "Err": what generate_processor returned
    genRecord,      \* the record parse_input makes of a matched line
    genPc           \* "idle" | "start" | "initialize" | "index" | "built" |
                    \* "failed" | "extracted"

fmtVars == <<template, fmtPc, matcher, variables>>

tailVars == <<file, appends, len, attachLen, pattern, running, lineCh, mainPc, mainRet,
              tailerPc, tailerRet, store, received, pollsAfterStop,
              eventsAfterCancel, ioError>>

extractVars == <<exLine, captures, exFields, record, exPc>>

runVars == <<runOpts, stdinTty, source, openFails, access_log, runPc, runRet,
             lines, slots, finished, records, runStore, effects>>

queryVars == <<qOpts, subcommand, processor, table, results, output, qPc>>

genVars == <<genOpts, genCommand, genProcessor, logTable, indexes, genRet, genRecord, genPc>>

vars == <<fmtVars, tailVars, extractVars, runVars, queryVars, genVars>>

\* what the actions of one part leave alone: the state of the other parts
notFmt == <<tailVars, extractVars, runVars, queryVars, genVars>>
notTail == <<fmtVars, extractVars, runVars, queryVars, genVars>>
notExtract == <<fmtVars, tailVars, runVars, queryVars, genVars>>
notRun == <<fmtVars, tailVars, extractVars, queryVars, genVars>>
notQuery == <<fmtVars, tailVars, extractVars, runVars, genVars>>
notGen == <<fmtVars, tailVars, extractVars, runVars, queryVars>>

----------------------------------------------------------------------------
(* Bounds of the model.                                                    *)

\* longest format template drawn for the format compiler
MaxTemplateLen == 3

\* number of writes the log writer makes to the followed file
MaxAppends == 3

\* longest field list given to a subcommand
MaxFields == 2

\* longest status capture drawn for the extraction
MaxStatusLen == 5

\* number of items (lines, read errors) the static input source yields
MaxSourceLen == 2

\* number of copies of one row the table holds
MaxCopies == 2

----------------------------------------------------------------------------
(* Characters and character sequences.                                     *)

NL == "\n"
BACKSLASH == "\\"
QUOTE == "\""

Lower ==
    {"a","b","c","d","e","f","g","h","i","j","k","l","m",
     "n","o","p","q","r","s","t","u","v","w","x","y","z"}
Upper ==
    {"A","B","C","D","E","F","G","H","I","J","K","L","M",
     "N","O","P","Q","R","S","T","U","V","W","X","Y","Z"}
Digits == {"0","1","2","3","4","5","6","7","8","9"}

\* sequences over S of length 0..n
SeqsUpTo(S, n) == UNION {[1..k -> S] : k \in 0..n}

\* the concatenation of the sequences ss[lo], .., ss[hi], by halves
RECURSIVE FlattenRange(_, _, _)
FlattenRange(ss, lo, hi) ==
    IF lo > hi THEN <<>>
    ELSE IF lo = hi THEN ss[lo]
    ELSE LET mid == (lo + hi) \div 2
         IN  FlattenRange(ss, lo, mid) \o FlattenRange(ss, mid + 1, hi)

Flatten(ss) == FlattenRange(ss, 1, Len(ss))

\* Vec<String>::join(sep)
Join(ss, sep) ==
    Flatten([i \in 1..(2 * Len(ss) - 1) |->
                IF i % 2 = 1 THEN ss[(i + 1) \div 2] ELSE sep])


NoDuplicates(s) == \A i, j \in 1..Len(s) : s[i] = s[j] => i = j

----------------------------------------------------------------------------
(* nginx.rs: the format compiler.                                          *)

LOG_FORMAT_COMBINED ==
    <<"$","r","e","m","o","t","e","_","a","d","d","r">> \o
    <<" ","-"," ">> \o
    <<"$","r","e","m","o","t","e","_","u","s","e","r">> \o
    <<" ","[">> \o
    <<"$","t","i","m","e","_","l","o","c","a","l">> \o
    <<"]"," ","\"">> \o
    <<"$","r","e","q","u","e","s","t">> \o
    <<"\""," ">> \o
    <<"$","s","t","a","t","u","s">> \o
    <<" ">> \o
    <<"$","b","o","d","y","_","b","y","t","e","s","_","s","e","n","t">> \o
    <<" ","\"">> \o
    <<"$","h","t","t","p","_","r","e","f","e","r","e","r">> \o
    <<"\""," ","\"">> \o
    <<"$","h","t","t","p","_","u","s","e","r","_","a","g","e","n","t">> \o
    <<"\"">>

\* the character class [a-zA-Z0-9_] of NGINX_VARIABLE_REGEX
NameChars == Lower \cup Upper \cup Digits \cup {"_"}

\* the character class of SPECIAL_CHARS_REGEX
SpecialChars == {".", "*", "+", "?", "|", "(", ")", "{", "}", "[", "]"}

\* SPECIAL_CHARS_REGEX.replace_all(format, r"\$1")
EscapeSpecial(s) ==
    Flatten([i \in 1..Len(s) |->
                IF s[i] \in SpecialChars THEN <<BACKSLASH, s[i]>> ELSE <<s[i]>>])

\* length of the longest run of name characters of s starting at index i
NameRun(s, i) ==
    LET end == CHOOSE k \in i..(Len(s) + 1) :
                    /\ k = Len(s) + 1 \/ s[k] \notin NameChars
                    /\ \A j \in i..(k - 1) : s[j] \in NameChars
    IN  end - i

\* a match of NGINX_VARIABLE_REGEX starts at index i: $ and a name character
VariableAt(s, i) == s[i] = "$" /\ i < Len(s) /\ s[i + 1] \in NameChars

\* index i is inside the name of a match of NGINX_VARIABLE_REGEX
InVariable(s, i) ==
    /\ s[i] \in NameChars
    /\ \E j \in 1..(i - 1) :
            /\ s[j] = "$"
            /\ \A k \in (j + 1)..i : s[k] \in NameChars

\* NGINX_VARIABLE_REGEX.replace_all(pattern, r"(?P<$1>.*)"): what each
\* character of the pattern becomes
ReplaceVariables(s) ==
    Flatten([i \in 1..Len(s) |->
        IF VariableAt(s, i) THEN <<"(", "?", "P", "<">>
        ELSE IF InVariable(s, i)
        THEN IF i < Len(s) /\ s[i + 1] \in NameChars
             THEN <<s[i]>>
             ELSE <<s[i], ">", ".", "*", ")">>
        ELSE <<s[i]>>])

\* A compiled pattern is a sequence of tokens [k, v]:
\*   k = "lit": the literal text v, one or more characters
\*   k = "grp": the named group (?P<v>.*)
\*   k = "eol": the end anchor $
Lit(v) == [k |-> "lit", v |-> v]
Grp(n) == [k |-> "grp", v |-> n]
Eol == [k |-> "eol", v |-> <<>>]

\* the character at index i is escaped: an odd number of backslashes
\* stands right before it
RECURSIVE BackslashesBefore(_, _)
BackslashesBefore(p, i) ==
    IF i > 1 /\ p[i - 1] = BACKSLASH THEN 1 + BackslashesBefore(p, i - 1) ELSE 0

Escaped(p, i) == BackslashesBefore(p, i) % 2 = 1

\* the text (?P< of a named group starts at index i
GroupAt(p, i) ==
    /\ p[i] = "("
    /\ ~Escaped(p, i)
    /\ i + 3 <= Len(p)
    /\ SubSeq(p, i, i + 3) = <<"(", "?", "P", "<">>

\* index i is inside the text of a named group, after its first character:
\* (?P< is 4 characters, the name n, and >.*) another 4
InGroup(p, i) ==
    \E j \in 1..(i - 1) :
        GroupAt(p, j) /\ i <= j + 3 + NameRun(p, j + 4) + 4

\* the syntax of the patterns that the two replacements produce, as
\* Regex::new reads it: the item that starts at each character
PatternItems(p) ==
    Flatten([i \in 1..Len(p) |->
        IF InGroup(p, i) THEN <<>>
        ELSE IF GroupAt(p, i) THEN <<Grp(SubSeq(p, i + 4, i + 3 + NameRun(p, i + 4)))>>
        ELSE IF Escaped(p, i) THEN <<Lit(<<p[i]>>)>>
        ELSE IF p[i] = BACKSLASH /\ i < Len(p) THEN <<>>
        ELSE IF p[i] = "$" THEN <<Eol>>
        ELSE <<Lit(<<p[i]>>)>>])

\* the number of literal items in a row from index t on
LitRun(items, t) ==
    LET end == CHOOSE k \in t..(Len(items) + 1) :
                    /\ k = Len(items) + 1 \/ items[k].k # "lit"
                    /\ \A j \in t..(k - 1) : items[j].k = "lit"
    IN  end - t

\* Regex::new: adjacent literal characters form one literal
ParsePattern(p) ==
    LET items == PatternItems(p)
    IN  Flatten([t \in 1..Len(items) |->
            IF items[t].k # "lit" THEN <<items[t]>>
            ELSE IF t > 1 /\ items[t - 1].k = "lit" THEN <<>>
            ELSE <<Lit(Flatten([k \in 1..LitRun(items, t) |-> items[t + k - 1].v]))>>])

\* Regex::capture_names, without the unnamed group 0
GroupNames(toks) ==
    LET groups == SelectSeq(toks, LAMBDA t : t.k = "grp")
    IN  [i \in 1..Len(groups) |-> groups[i].v]

\* Regex::new: a group name used twice, or starting with a digit, is an error
RegexNew(p) ==
    LET toks == ParsePattern(p)
        names == GroupNames(toks)
    IN  IF NoDuplicates(names) /\ \A i \in 1..Len(names) : names[i][1] \notin Digits
        THEN [ok |-> TRUE, toks |-> toks]
        ELSE [ok |-> FALSE, toks |-> <<>>]

\* a Result not yet computed
NoResult == [ok |-> FALSE, toks |-> <<>>]
NoText == [ok |-> FALSE, text |-> <<>>]

\* format_to_pattern: the parameter is unused, the built-in template is compiled
format_to_pattern(_format) ==
    LET format == LOG_FORMAT_COMBINED
    IN  RegexNew(ReplaceVariables(EscapeSpecial(format)))

\* available_variables
available_variables(format) ==
    LET re == format_to_pattern(format)
    IN  IF re.ok
        THEN [ok |-> TRUE, text |-> Join(GroupNames(re.toks), <<",", " ">>)]
        ELSE [ok |-> FALSE, text |-> <<>>]

\* the directive names of a template, in template order: the $name tokens
DirectiveNames(s) ==
    LET starts == SelectSeq([i \in 1..Len(s) |-> i], LAMBDA i : VariableAt(s, i))
    IN  [k \in 1..Len(starts) |->
            SubSeq(s, starts[k] + 1, starts[k] + NameRun(s, starts[k] + 1))]

----------------------------------------------------------------------------
(* regex: Regex::captures is an unanchored search; a named group takes any *)
(* run of characters other than the newline.                               *)

\* the text v stands in `line` at position li
TextAt(line, li, v) ==
    /\ li + Len(v) - 1 <= Len(line)
    /\ \A k \in 1..Len(v) : line[li + k - 1] = v[k]

\* a matcher whose groups take no blank (\S* in place of .*)
RECURSIVE MatchFromNoBlank(_, _, _, _)
MatchFromNoBlank(toks, ti, line, li) ==
    IF ti > Len(toks) THEN TRUE
    ELSE IF toks[ti].k = "lit"
    THEN /\ TextAt(line, li, toks[ti].v)
         /\ MatchFromNoBlank(toks, ti + 1, line, li + Len(toks[ti].v))
    ELSE IF toks[ti].k = "grp"
    THEN \E e \in li..(Len(line) + 1) :
            /\ \A j \in li..(e - 1) : line[j] \notin {NL, " "}
            /\ MatchFromNoBlank(toks, ti + 1, line, e)
    ELSE li = Len(line) + 1 /\ MatchFromNoBlank(toks, ti + 1, line, li)

\* whether the tokens from index ti on match `line` from position li on.
\* The literal that follows a group is matched together with the group.
RECURSIVE MatchFrom(_, _, _, _)
MatchFrom(toks, ti, line, li) ==
    IF ti > Len(toks) THEN TRUE
    ELSE IF toks[ti].k = "lit"
    THEN /\ TextAt(line, li, toks[ti].v)
         /\ MatchFrom(toks, ti + 1, line, li + Len(toks[ti].v))
    ELSE IF toks[ti].k = "grp"
    THEN \E e \in li..(Len(line) + 1) :
            /\ \A j \in li..(e - 1) : line[j] # NL
            /\ IF ti < Len(toks) /\ toks[ti + 1].k = "lit"
               THEN /\ TextAt(line, e, toks[ti + 1].v)
                    /\ MatchFrom(toks, ti + 2, line, e + Len(toks[ti + 1].v))
               ELSE MatchFrom(toks, ti + 1, line, e)
    ELSE li = Len(line) + 1 /\ MatchFrom(toks, ti + 1, line, li)

\* pattern.captures(line).is_some()
IsMatch(re, line) ==
    \E s \in 1..(Len(line) + 1) : MatchFrom(re.toks, 1, line, s)

\* the texts of the groups from token ti on, for a match that is at index
\* li of the line: a group is greedy, it takes the longest text after
\* which the rest of the pattern still matches
RECURSIVE CapturesFrom(_, _, _, _)
CapturesFrom(toks, ti, line, li) ==
    IF ti > Len(toks) THEN <<>>
    ELSE IF toks[ti].k = "lit"
    THEN CapturesFrom(toks, ti + 1, line, li + Len(toks[ti].v))
    ELSE IF toks[ti].k = "grp"
    THEN LET ends == {e \in li..(Len(line) + 1) :
                        /\ \A j \in li..(e - 1) : line[j] # NL
                        /\ MatchFrom(toks, ti + 1, line, e)}
             end == CHOOSE e \in ends : \A x \in ends : x <= e
         IN  <<SubSeq(line, li, end - 1)>> \o CapturesFrom(toks, ti + 1, line, end)
    ELSE CapturesFrom(toks, ti + 1, line, li)

\* the names of the combined template's directives and their characters
CombinedNameChars ==
    [remote_addr |-> <<"r","e","m","o","t","e","_","a","d","d","r">>,
     remote_user |-> <<"r","e","m","o","t","e","_","u","s","e","r">>,
     time_local |-> <<"t","i","m","e","_","l","o","c","a","l">>,
     request |-> <<"r","e","q","u","e","s","t">>,
     status |-> <<"s","t","a","t","u","s">>,
     body_bytes_sent |-> <<"b","o","d","y","_","b","y","t","e","s","_","s","e","n","t">>,
     http_referer |-> <<"h","t","t","p","_","r","e","f","e","r","e","r">>,
     http_user_agent |-> <<"h","t","t","p","_","u","s","e","r","_","a","g","e","n","t">>]

NoCaptures == [some |-> FALSE, c |-> <<>>]

\* Regex::captures: None when the pattern matches nowhere in the line,
\* else the leftmost match, as a function from the names of the groups
\* to their texts
Captures(re, line) ==
    LET starts == {s \in 1..(Len(line) + 1) : MatchFrom(re.toks, 1, line, s)}
        start == CHOOSE s \in starts : \A x \in starts : s <= x
        names == GroupNames(re.toks)
        texts == CapturesFrom(re.toks, 1, line, start)
        known == {n \in DOMAIN CombinedNameChars :
                    \E i \in DOMAIN names : names[i] = CombinedNameChars[n]}
    IN  IF starts = {} THEN NoCaptures
        ELSE [some |-> TRUE,
              c |-> [n \in known |->
                        texts[CHOOSE i \in DOMAIN names : names[i] = CombinedNameChars[n]]]]

----------------------------------------------------------------------------
(* main.rs: tail(), continuous mode. Two threads: the main thread (attach, *)
(* the event loop, stop, join) and the reader thread (the Tailer).         *)

\* the default value of --format
OptsFormat == <<"c","o","m","b","i","n","e","d">>

\* a line in the combined layout, and what the log writer writes at a time:
\* a piece of a line, the end of a line, a whole line
GoodLine ==
    <<"h"," ","-"," ","u"," ","[","t","]"," ","\"","G","E","T"," ","/","\"",
      " ","2","0","0"," ","5"," ","\"","r","\""," ","\"","a","\"">>
Chunks == {<<"x">>, <<"x", NL>>, GoodLine \o <<NL>>}

\* BufRead::read_line at offset `off`: the number of bytes up to and
\* including the next newline, or up to the end of the file
LineBytes(f, off) ==
    LET newlines == {i \in (off + 1)..Len(f) : f[i] = NL}
    IN  IF off >= Len(f) THEN 0
        ELSE IF newlines = {} THEN Len(f) - off
        ELSE (CHOOSE i \in newlines : \A j \in newlines : i <= j) - off

\* String::pop: the string without its last character
Pop(line) == IF line = <<>> THEN <<>> ELSE SubSeq(line, 1, Len(line) - 1)

\* the receiving side of a channel is gone once tail() has returned, the
\* sending side of the line channel and the receiving side of the stop
\* channel once the reader thread's closure has returned
MainGone == mainPc = "returned"
TailerGone == tailerPc = "done"

\* the event just handled counts when `running` was already false
CountEvent == IF running THEN eventsAfterCancel ELSE eventsAfterCancel + 1

TailStart(pc) ==
    /\ file = <<>>
    /\ appends = 0
    /\ len = 0
    /\ attachLen = 0
    /\ pattern = NoResult
    /\ running = TRUE
    /\ lineCh = <<>>
    /\ mainPc = pc
    /\ mainRet = "none"
    /\ tailerPc = "unborn"
    /\ tailerRet = "none"
    /\ store = <<>>
    /\ received = <<>>
    /\ pollsAfterStop = 0
    /\ eventsAfterCancel = 0
    /\ ioError = FALSE

TailInit == TailStart("attach")

\* the log writer appends to the file, before or after the Tailer attaches
WriterAppend(chunk) ==
    /\ appends < MaxAppends
    /\ file' = file \o chunk
    /\ appends' = appends + 1
    /\ UNCHANGED notTail
    /\ UNCHANGED <<len, attachLen, pattern, running, lineCh, mainPc, mainRet, tailerPc,
                   tailerRet, store, received, pollsAfterStop,
                   eventsAfterCancel, ioError>>

\* as TailAttach, without the seek to the end of the file
TailAttachNoSeek ==
    /\ mainPc = "attach"
    /\ len' = 0
    /\ attachLen' = Len(file)
    /\ pattern' = format_to_pattern(OptsFormat)
    /\ tailerPc' = "select"
    /\ mainPc' = "check"
    /\ UNCHANGED notTail
    /\ UNCHANGED <<file, appends, running, lineCh, mainRet, tailerRet, store,
                   received, pollsAfterStop, eventsAfterCancel, ioError>>

\* lines 126-167: open, metadata, seek to the end, install the interrupt
\* handler, spawn the reader thread
TailAttach ==
    /\ mainPc = "attach"
    /\ len' = Len(file)
    /\ attachLen' = Len(file)
    /\ pattern' = format_to_pattern(OptsFormat)
    /\ tailerPc' = "select"
    /\ mainPc' = "check"
    /\ UNCHANGED notTail
    /\ UNCHANGED <<file, appends, running, lineCh, mainRet, tailerRet, store,
                   received, pollsAfterStop, eventsAfterCancel, ioError>>

\* lines 124-144: one of the fallible set-up calls fails with `?`
TailAttachFail ==
    /\ mainPc = "attach"
    /\ mainPc' = "returned"
    /\ mainRet' = "SetupError"
    /\ ioError' = TRUE
    /\ UNCHANGED notTail
    /\ UNCHANGED <<file, appends, len, attachLen, pattern, running, lineCh, tailerPc,
                   tailerRet, store, received, pollsAfterStop, eventsAfterCancel>>

\* lines 142-144: the ctrlc handler stores false into `running`
Interrupt ==
    /\ mainPc \notin {"attach", "returned"}
    /\ running
    /\ running' = FALSE
    /\ UNCHANGED notTail
    /\ UNCHANGED <<file, appends, len, attachLen, pattern, lineCh, mainPc, mainRet,
                   tailerPc, tailerRet, store, received, pollsAfterStop,
                   eventsAfterCancel, ioError>>

\* as TailerSelect, without the recv(stop_rx) arm while the sender lives
TailerSelectNoStop ==
    /\ tailerPc = "select"
    /\ IF MainGone
       THEN /\ tailerPc' = "done"
            /\ tailerRet' = "Ok"
       ELSE /\ tailerPc' = "poll"
            /\ UNCHANGED tailerRet
    /\ UNCHANGED notTail
    /\ UNCHANGED <<file, appends, len, attachLen, pattern, running, lineCh, mainPc,
                   mainRet, store, received, pollsAfterStop, eventsAfterCancel,
                   ioError>>

\* as TailerSelect, with a recv(stop_rx) arm that a dropped sender does
\* not make ready
TailerSelectNoDisconnect ==
    /\ tailerPc = "select"
    /\ IF mainPc = "send"
       THEN /\ tailerPc' = "done"
            /\ tailerRet' = "Ok"
            /\ mainPc' = "join"
       ELSE /\ tailerPc' = "poll"
            /\ UNCHANGED <<tailerRet, mainPc>>
    /\ UNCHANGED notTail
    /\ UNCHANGED <<file, appends, len, attachLen, pattern, running, lineCh, mainRet,
                   store, received, pollsAfterStop, eventsAfterCancel, ioError>>

\* lines 148-150: the reader's select. recv(stop_rx) is ready when the main
\* thread is blocked in stop_tx.send (the rendezvous completes the send) or
\* when stop_tx is dropped; otherwise the default arm runs
TailerSelect ==
    /\ tailerPc = "select"
    /\ IF mainPc = "send"
       THEN /\ tailerPc' = "done"
            /\ tailerRet' = "Ok"
            /\ mainPc' = "join"
       ELSE IF MainGone
       THEN /\ tailerPc' = "done"
            /\ tailerRet' = "Ok"
            /\ UNCHANGED mainPc
       ELSE /\ tailerPc' = "poll"
            /\ UNCHANGED <<tailerRet, mainPc>>
    /\ UNCHANGED notTail
    /\ UNCHANGED <<file, appends, len, attachLen, pattern, running, lineCh, mainRet,
                   store, received, pollsAfterStop, eventsAfterCancel, ioError>>

\* lines 151-163: the default arm: read_line; with bytes read, advance len,
\* seek, pop the last character and send the line; without, sleep
TailerPoll ==
    /\ tailerPc = "poll"
    /\ pollsAfterStop' = IF mainPc = "send" THEN pollsAfterStop + 1 ELSE pollsAfterStop
    /\ LET n_read == LineBytes(file, len)
           line == Pop(SubSeq(file, len + 1, len + n_read))
       IN  IF n_read > 0
           THEN /\ len' = len + n_read
                /\ IF MainGone
                   THEN /\ tailerPc' = "done"
                        /\ tailerRet' = "SendError"
                        /\ UNCHANGED lineCh
                   ELSE /\ lineCh' = Append(lineCh, [text |-> line, off |-> len])
                        /\ tailerPc' = "select"
                        /\ UNCHANGED tailerRet
           ELSE /\ tailerPc' = "select"
                /\ UNCHANGED <<len, lineCh, tailerRet>>
    /\ UNCHANGED notTail
    /\ UNCHANGED <<file, appends, attachLen, pattern, running, mainPc, mainRet, store,
                   received, eventsAfterCancel, ioError>>

\* lines 152, 156: read_line or seek fails and `?` returns the error
TailerPollFail ==
    /\ tailerPc = "poll"
    /\ tailerPc' = "done"
    /\ tailerRet' = "IoError"
    /\ ioError' = TRUE
    /\ pollsAfterStop' = IF mainPc = "send" THEN pollsAfterStop + 1 ELSE pollsAfterStop
    /\ UNCHANGED notTail
    /\ UNCHANGED <<file, appends, len, attachLen, pattern, running, lineCh, mainPc,
                   mainRet, store, received, eventsAfterCancel>>

\* a loop that looks at the flag only once the line channel is empty
MainCheckWhenIdle ==
    /\ mainPc = "check"
    /\ mainPc' = IF running \/ lineCh # <<>> THEN "select" ELSE "send"
    /\ UNCHANGED notTail
    /\ UNCHANGED <<file, appends, len, attachLen, pattern, running, lineCh, mainRet,
                   tailerPc, tailerRet, store, received, pollsAfterStop,
                   eventsAfterCancel, ioError>>

\* line 170: while running.load(..)
MainCheck ==
    /\ mainPc = "check"
    /\ mainPc' = IF running THEN "select" ELSE "send"
    /\ UNCHANGED notTail
    /\ UNCHANGED <<file, appends, len, attachLen, pattern, running, lineCh, mainRet,
                   tailerPc, tailerRet, store, received, pollsAfterStop,
                   eventsAfterCancel, ioError>>

\* a line arrival that inserts a row for every line, matching or not
MainRecvLineAll ==
    /\ mainPc = "select"
    /\ lineCh # <<>>
    /\ received' = Append(received, Head(lineCh))
    /\ store' = Append(store, Head(lineCh))
    /\ lineCh' = Tail(lineCh)
    /\ eventsAfterCancel' = CountEvent
    /\ mainPc' = "check"
    /\ UNCHANGED notTail
    /\ UNCHANGED <<file, appends, len, attachLen, pattern, running, mainRet, tailerPc,
                   tailerRet, pollsAfterStop, ioError>>

\* a line arrival that takes the line and inserts nothing
MainRecvLineNoInsert ==
    /\ mainPc = "select"
    /\ lineCh # <<>>
    /\ received' = Append(received, Head(lineCh))
    /\ lineCh' = Tail(lineCh)
    /\ eventsAfterCancel' = CountEvent
    /\ mainPc' = "check"
    /\ UNCHANGED notTail
    /\ UNCHANGED <<file, appends, len, attachLen, pattern, running, mainRet, tailerPc,
                   tailerRet, store, pollsAfterStop, ioError>>

\* lines 172-176: a line arrives; parse_input inserts its record if it
\* matches and drops it if not
MainRecvLine ==
    /\ mainPc = "select"
    /\ lineCh # <<>>
    /\ LET m == Head(lineCh)
       IN  /\ received' = Append(received, m)
           /\ store' = IF IsMatch(pattern, m.text)
                       THEN Append(store, m)
                       ELSE store
    /\ lineCh' = Tail(lineCh)
    /\ eventsAfterCancel' = CountEvent
    /\ mainPc' = "check"
    /\ UNCHANGED notTail
    /\ UNCHANGED <<file, appends, len, attachLen, pattern, running, mainRet, tailerPc,
                   tailerRet, pollsAfterStop, ioError>>

\* lines 174, processor.rs 70-77: the insert of a matched line fails
MainInsertFail ==
    /\ mainPc = "select"
    /\ lineCh # <<>>
    /\ IsMatch(pattern, Head(lineCh).text)
    /\ received' = Append(received, Head(lineCh))
    /\ lineCh' = Tail(lineCh)
    /\ eventsAfterCancel' = CountEvent
    /\ mainPc' = "returned"
    /\ mainRet' = "StoreError"
    /\ ioError' = TRUE
    /\ UNCHANGED notTail
    /\ UNCHANGED <<file, appends, len, attachLen, pattern, running, tailerPc, tailerRet,
                   store, pollsAfterStop>>

\* lines 172-173: recv(rx) on the empty line channel whose sender is
\* dropped yields Err(RecvError), which `line?` returns
MainRecvDisconnected ==
    /\ mainPc = "select"
    /\ lineCh = <<>>
    /\ TailerGone
    /\ mainPc' = "returned"
    /\ mainRet' = "RecvError"
    /\ eventsAfterCancel' = CountEvent
    /\ UNCHANGED notTail
    /\ UNCHANGED <<file, appends, len, attachLen, pattern, running, lineCh, tailerPc,
                   tailerRet, store, received, pollsAfterStop, ioError>>

\* lines 177-180: the ticker fires; clear the screen and report
MainTick ==
    /\ mainPc = "select"
    /\ mainPc' = "check"
    /\ eventsAfterCancel' = CountEvent
    /\ UNCHANGED notTail
    /\ UNCHANGED <<file, appends, len, attachLen, pattern, running, lineCh, mainRet,
                   tailerPc, tailerRet, store, received, pollsAfterStop, ioError>>

\* lines 178-179: clearing the screen or a report query fails
MainTickFail ==
    /\ mainPc = "select"
    /\ mainPc' = "returned"
    /\ mainRet' = "ReportError"
    /\ eventsAfterCancel' = CountEvent
    /\ ioError' = TRUE
    /\ UNCHANGED notTail
    /\ UNCHANGED <<file, appends, len, attachLen, pattern, running, lineCh, tailerPc,
                   tailerRet, store, received, pollsAfterStop>>

\* line 185: stop_tx.send(()) on the zero-capacity channel whose receiver
\* is dropped yields Err(SendError), which `?` returns. (The successful
\* send is the rendezvous in TailerSelect.)
MainSendFail ==
    /\ mainPc = "send"
    /\ TailerGone
    /\ mainPc' = "returned"
    /\ mainRet' = "SendError"
    /\ UNCHANGED notTail
    /\ UNCHANGED <<file, appends, len, attachLen, pattern, running, lineCh, tailerPc,
                   tailerRet, store, received, pollsAfterStop,
                   eventsAfterCancel, ioError>>

\* lines 189-191: join the reader thread and return what it returned
MainJoin ==
    /\ mainPc = "join"
    /\ TailerGone
    /\ mainPc' = "returned"
    /\ mainRet' = tailerRet
    /\ UNCHANGED notTail
    /\ UNCHANGED <<file, appends, len, attachLen, pattern, running, lineCh, tailerPc,
                   tailerRet, store, received, pollsAfterStop,
                   eventsAfterCancel, ioError>>

MainStep ==
    \/ MainCheck
    \/ MainRecvLine
    \/ MainRecvDisconnected
    \/ MainTick
    \/ MainSendFail
    \/ MainJoin

TailerStep == TailerSelect \/ TailerPoll

TailNext ==
    \/ \E chunk \in Chunks : WriterAppend(chunk)
    \/ TailAttach
    \/ TailAttachFail
    \/ Interrupt
    \/ TailerSelect
    \/ TailerPoll
    \/ TailerPollFail
    \/ MainCheck
    \/ MainRecvLine
    \/ MainInsertFail
    \/ MainRecvDisconnected
    \/ MainTick
    \/ MainTickFail
    \/ MainSendFail
    \/ MainJoin

----------------------------------------------------------------------------
(* main.rs: parse_input, the record extracted from the captures of one     *)
(* matched line. The captures `c` are a function from the names of the     *)
(* matcher's groups to the captured text.                                  *)

STATUS_TYPE == "status_type"
BYTES_SENT == "bytes_sent"
REQUEST_PATH == "request_path"

\* c.name(n).map_or("", |m| m.as_str())
CaptureOrEmpty(c, n) == IF n \in DOMAIN c THEN c[n] ELSE <<>>

DigitValue(ch) ==
    CHOOSE d \in 0..9 : <<"0","1","2","3","4","5","6","7","8","9">>[d + 1] = ch

\* the decimal digits of the largest u16 and of the largest u32
U16Digits == <<"6","5","5","3","5">>
U32Digits == <<"4","2","9","4","9","6","7","2","9","5">>

\* a digit string without its leading zeros
StripZeros(ds) ==
    LET nz == {i \in 1..Len(ds) : ds[i] # "0"}
    IN  IF nz = {} THEN <<>>
        ELSE SubSeq(ds, CHOOSE i \in nz : \A j \in nz : i <= j, Len(ds))

\* the number a digit string without leading zeros denotes is above the
\* one maxDigits denotes: the accumulation of the digits overflows
DigitsAbove(ds, maxDigits) ==
    \/ Len(ds) > Len(maxDigits)
    \/ /\ Len(ds) = Len(maxDigits)
       /\ \E i \in 1..Len(ds) :
             /\ DigitValue(ds[i]) > DigitValue(maxDigits[i])
             /\ \A j \in 1..(i - 1) : ds[j] = maxDigits[j]

RECURSIVE DecimalValue(_)
DecimalValue(ds) ==
    IF ds = <<>> THEN 0
    ELSE 10 * DecimalValue(SubSeq(ds, 1, Len(ds) - 1)) + DigitValue(ds[Len(ds)])

ParseErr == [ok |-> FALSE, value |-> 0]

\* str::parse::<uN>(): an optional "+", then one or more decimal digits
\* and nothing else; an error when empty, on any other character, or when
\* the number is above the largest value of the type
ParseUnsigned(text, maxDigits) ==
    LET ds == IF text # <<>> /\ text[1] = "+" THEN Tail(text) ELSE text
    IN  IF ds = <<>> THEN ParseErr
        ELSE IF \E i \in 1..Len(ds) : ds[i] \notin Digits THEN ParseErr
        ELSE IF DigitsAbove(StripZeros(ds), maxDigits) THEN ParseErr
        ELSE [ok |-> TRUE, value |-> DecimalValue(StripZeros(ds))]

\* Result::unwrap_or
UnwrapOr(r, default) == IF r.ok THEN r.value ELSE default

\* a status class that is the status number without its last digit only
StatusTypeDivTen(status) ==
    UnwrapOr(ParseUnsigned(status, U16Digits), 0) \div 10

\* status.parse::<u16>().unwrap_or(0) / 100
StatusType(status) ==
    UnwrapOr(ParseUnsigned(status, U16Digits), 0) \div 100

\* the value pushed for one field of processor.fields
FieldValue(c, field) ==
    IF field = STATUS_TYPE
    THEN StatusType(CaptureOrEmpty(c, "status"))
    ELSE IF field = BYTES_SENT
    THEN UnwrapOr(ParseUnsigned(CaptureOrEmpty(c, "body_bytes_sent"), U32Digits), 0)
    ELSE IF field = REQUEST_PATH
    THEN IF "request_uri" \in DOMAIN c
         THEN c["request_uri"]
         ELSE CaptureOrEmpty(c, "request")
    ELSE CaptureOrEmpty(c, field)

\* format!(":{}", field)
Placeholder(field) == <<":", field>>

\* the record of one matched line: a (placeholder, value) pair per field
Record(c, fields) ==
    [i \in 1..Len(fields) |->
        [name |-> Placeholder(fields[i]), value |-> FieldValue(c, fields[i])]]

\* pattern.captures(line): a line that does not match gives None, and
\* the closure is done with it
MatchLine ==
    /\ exPc = "line"
    /\ LET m == Captures(format_to_pattern(OptsFormat), exLine)
       IN  IF m.some
           THEN captures' = m.c /\ exPc' = "matched"
           ELSE captures' = <<>> /\ exPc' = "unmatched"
    /\ UNCHANGED <<exLine, exFields, record>>
    /\ UNCHANGED notExtract

\* the extraction of one matched line
ExtractRecord ==
    /\ exPc = "matched"
    /\ record' = Record(captures, exFields)
    /\ exPc' = "extracted"
    /\ UNCHANGED <<exLine, captures, exFields>>
    /\ UNCHANGED notExtract

----------------------------------------------------------------------------
(* processor.rs and the subcommands of main.rs: the fields and queries of  *)
(* a Processor, the table `log`, and report(). A query is the SQL text     *)
(* taken apart into its clauses; the engine that evaluates it (SQLite) is  *)
(* modelled by what it returns for these clauses. The table is a bag of    *)
(* rows; a row is a function from the column names to values.              *)

NoClause == [some |-> FALSE, expr |-> 0]
Clause(e) == [some |-> TRUE, expr |-> e]
NoOrder == [some |-> FALSE, column |-> ""]
OrderDesc(col) == [some |-> TRUE, column |-> col]

SummaryColumns == <<"count", "avg_bytes_sent", "2XX", "3XX", "4XX", "5XX">>

\* "SELECT count(1) AS count, AVG(bytes_sent) .., COUNT(CASE ..) ..
\*  FROM log ORDER BY {order_by} DESC LIMIT {limit};"
default_summary_query(opts) ==
    [select |-> "stats", columns |-> SummaryColumns, group_by |-> <<>>,
     having |-> NoClause, order_by |-> OrderDesc(opts.order_by),
     limit |-> Clause(opts.limit)]

\* "SELECT {group_by}, COUNT(1) AS count, .. FROM log GROUP BY {group_by}
\*  HAVING {having_opt} ORDER BY {order_by} DESC LIMIT {limit};"
default_detailed_query(opts) ==
    [select |-> "stats", columns |-> <<opts.group_by>> \o SummaryColumns,
     group_by |-> <<opts.group_by>>, having |-> Clause(opts.having),
     order_by |-> OrderDesc(opts.order_by), limit |-> Clause(opts.limit)]

\* a top query that has no LIMIT clause
TopQueryNoLimit(f, limit) ==
    [select |-> "count", columns |-> <<f, "count">>, group_by |-> <<f>>,
     having |-> NoClause, order_by |-> OrderDesc("count"), limit |-> NoClause]

\* "SELECT {field}, COUNT(1) AS count FROM log GROUP BY {field}
\*  ORDER BY COUNT DESC LIMIT {limit}"
TopQuery(f, limit) ==
    [select |-> "count", columns |-> <<f, "count">>, group_by |-> <<f>>,
     having |-> NoClause, order_by |-> OrderDesc("count"), limit |-> Clause(limit)]

\* top_subcommand: the queries handed to run(), one per field
top_subcommand(opts, fields) ==
    [fields |-> fields,
     queries |-> [i \in 1..Len(fields) |-> TopQuery(fields[i], opts.limit)]]

\* "SELECT {selections} FROM log GROUP BY {selections}"
PrintQuery(fields) ==
    [select |-> "fields", columns |-> fields, group_by |-> fields,
     having |-> NoClause, order_by |-> NoOrder, limit |-> NoClause]

\* print_subcommand: the one query handed to run()
print_subcommand(opts, fields) ==
    [fields |-> fields, queries |-> <<PrintQuery(fields)>>]

\* generate_processor with fields = None and queries = None
default_processor(opts) ==
    [fields |-> IF opts.group_by \in {STATUS_TYPE, BYTES_SENT}
                THEN <<STATUS_TYPE, BYTES_SENT>>
                ELSE <<STATUS_TYPE, BYTES_SENT, opts.group_by>>,
     queries |-> <<default_summary_query(opts), default_detailed_query(opts)>>]

\* "SELECT AVG({f}), .. FROM log" and "SELECT SUM({f}), .. FROM log"
AggregateQuery(fn, fields) ==
    [select |-> fn, columns |-> [i \in 1..Len(fields) |-> <<fn, fields[i]>>],
     group_by |-> <<>>, having |-> NoClause, order_by |-> NoOrder,
     limit |-> NoClause]

\* avg_subcommand: the one query handed to run()
avg_subcommand(opts, fields) ==
    [fields |-> fields, queries |-> <<AggregateQuery("AVG", fields)>>]

\* sum_subcommand: the one query handed to run()
sum_subcommand(opts, fields) ==
    [fields |-> fields, queries |-> <<AggregateQuery("SUM", fields)>>]

\* query_subcommand: the user's query, as given
query_subcommand(opts, fields, query) ==
    [fields |-> fields,
     queries |-> <<[select |-> "custom", columns |-> <<>>, group_by |-> <<>>,
                    having |-> NoClause, order_by |-> NoOrder,
                    limit |-> NoClause, text |-> query]>>]

\* main(): the subcommand decides what run() hands to generate_processor
generate_processor(opts, sc) ==
    IF sc.name = "top" THEN top_subcommand(opts, sc.fields)
    ELSE IF sc.name = "print" THEN print_subcommand(opts, sc.fields)
    ELSE IF sc.name = "avg" THEN avg_subcommand(opts, sc.fields)
    ELSE IF sc.name = "sum" THEN sum_subcommand(opts, sc.fields)
    ELSE IF sc.name = "query" THEN query_subcommand(opts, sc.fields, sc.query)
    ELSE default_processor(opts)

\* ---- the table and the rows a record can give it

Paths == {"/a", "/b"}
StatusTypes == {2, 4}
BytesSent == {10}
FullRows == [request_path : Paths, status_type : StatusTypes, bytes_sent : BytesSent]

Range(s) == {s[i] : i \in DOMAIN s}

\* the rows of a table with the columns `fields`
RowsFor(fields) == {[f \in Range(fields) |-> r[f]] : r \in FullRows}

\* ---- evaluation of a query

\* the value a row has for the GROUP BY columns
KeyOf(r, q) == [i \in 1..Len(q.group_by) |-> r[q.group_by[i]]]

\* the groups: one per key present; without GROUP BY an aggregate query
\* has exactly one group, also over an empty table
GroupKeys(q, t) ==
    IF q.group_by = <<>> THEN {<<>>}
    ELSE {KeyOf(r, q) : r \in BagToSet(t)}

GroupRows(q, t, key) == {r \in BagToSet(t) : KeyOf(r, q) = key}

\* the sum over the rows in S, with their multiplicity, of column col
\* (of 1 when col is "")
RECURSIVE SumRows(_, _, _)
SumRows(t, S, col) ==
    IF S = {} THEN 0
    ELSE LET r == CHOOSE x \in S : TRUE
         IN  CopiesIn(r, t) * (IF col = "" THEN 1 ELSE r[col])
                + SumRows(t, S \ {r}, col)

\* AVG: null over no rows, else the quotient sum / n
Avg(sum, n) == [null |-> n = 0, sum |-> sum, n |-> n]

\* the result row of one group: the key (all a print query selects), the
\* count, and for the two default queries the average of bytes_sent and
\* the counts per class
ResultRow(q, t, key) ==
    LET S == GroupRows(q, t, key)
        n == SumRows(t, S, "")
    IN  IF q.select = "fields"
        THEN [key |-> key]
        ELSE IF q.select = "count"
        THEN [key |-> key, count |-> n]
        ELSE [key |-> key, count |-> n,
              avg_bytes_sent |-> Avg(SumRows(t, S, BYTES_SENT), n),
              classes |-> [k \in 2..5 |->
                              SumRows(t, {r \in S : r[STATUS_TYPE] = k}, "")]]

\* HAVING e with e a number: the condition is the number itself, true
\* when it is not zero
HavingHolds(q, row) == q.having.some => q.having.expr # 0

\* the orders ORDER BY count DESC allows: equal counts in any order
Orderings(q, S) ==
    {s \in [1..Cardinality(S) -> S] :
        /\ \A i, j \in DOMAIN s : i # j => s[i] # s[j]
        /\ q.order_by.some =>
              \A i, j \in DOMAIN s : i < j => s[i].count >= s[j].count}

\* LIMIT n
Limited(q, s) ==
    IF q.limit.some /\ q.limit.expr < Len(s) THEN SubSeq(s, 1, q.limit.expr) ELSE s

\* the result sets the engine may return for a query
QueryResults(q, t) ==
    LET kept == {row \in {ResultRow(q, t, key) : key \in GroupKeys(q, t)} :
                    HavingHolds(q, row)}
    IN  {Limited(q, s) : s \in Orderings(q, kept)}

\* the result sets of the first n queries, evaluated in turn
RECURSIVE ResultChoices(_, _, _)
ResultChoices(queries, t, n) ==
    IF n = 0 THEN {<<>>}
    ELSE {Append(rss, rs) : rss \in ResultChoices(queries, t, n - 1),
                            rs \in QueryResults(queries[n], t)}

\* ---- report()

HeaderLine(i, q) == [kind |-> "header", query |-> i, cells |-> q.columns]
RowLine(i, row) == [kind |-> "row", query |-> i, cells |-> row]

\* what report() writes for the result set of query i: the header when
\* the first row arrives, then a line per row
RenderSet(i, q, rs) ==
    IF rs = <<>> THEN <<>>
    ELSE <<HeaderLine(i, q)>> \o [j \in 1..Len(rs) |-> RowLine(i, rs[j])]

Render(queries, rss) ==
    Flatten([i \in 1..Len(queries) |-> RenderSet(i, queries[i], rss[i])])

\* ---- the actions

\* generate_processor: the fields, the queries, and CREATE TABLE log
BuildProcessor ==
    /\ qPc = "start"
    /\ processor' = generate_processor(qOpts, subcommand)
    /\ qPc' = "built"
    /\ UNCHANGED <<qOpts, subcommand, table, results, output>>
    /\ UNCHANGED notQuery

\* process(): one record is inserted
Process(row) ==
    /\ qPc \in {"built", "reported"}
    /\ row \in RowsFor(processor.fields)
    /\ CopiesIn(row, table) < MaxCopies
    /\ table' = table (+) SetToBag({row})
    /\ qPc' = "built"
    /\ UNCHANGED <<qOpts, subcommand, processor, results, output>>
    /\ UNCHANGED notQuery

\* report(): every query in turn is evaluated and its rows are written
Report ==
    /\ qPc \in {"built", "reported"}
    /\ \E rss \in ResultChoices(processor.queries, table, Len(processor.queries)) :
          /\ results' = rss
          /\ output' = Render(processor.queries, rss)
    /\ qPc' = "reported"
    /\ UNCHANGED <<qOpts, subcommand, processor, table>>
    /\ UNCHANGED notQuery

QueryNext ==
    \/ BuildProcessor
    \/ \E row \in RowsFor(processor.fields) : Process(row)
    \/ Report

----------------------------------------------------------------------------
(* main.rs: run(), the choice of the mode and the static mode. `effects`   *)
(* lists what run() has done to the outside so far: "open" (File::open),   *)
(* "stdin", "read" (lines read), "store" (generate_processor), "insert"    *)
(* (process), "report", "tail" (tail() entered: it opens the file,         *)
(* creates the store and spawns the Tailer). The store engine is taken to  *)
(* succeed here.                                                           *)

STDIN == "STDIN"

NoLog == [some |-> FALSE, name |-> ""]
SomeLog(n) == [some |-> TRUE, name |-> n]

\* one item of BufRead::lines(): a line, or a read error
ReadOk(line) == [ok |-> TRUE, text |-> line]
ReadErr == [ok |-> FALSE, text |-> <<>>]

RunReturn(ret) ==
    /\ runPc' = "returned"
    /\ runRet' = ret

\* let access_log = match &opts.access_log { .. }
RunResolve ==
    /\ runPc = "resolve"
    /\ IF runOpts.access_log.some
       THEN /\ access_log' = runOpts.access_log.name
            /\ runPc' = "check"
            /\ UNCHANGED runRet
       ELSE IF ~stdinTty
       THEN /\ access_log' = STDIN
            /\ runPc' = "check"
            /\ UNCHANGED runRet
       ELSE /\ RunReturn("ConfigError")
            /\ UNCHANGED access_log
    /\ UNCHANGED <<runOpts, stdinTty, source, openFails, lines, runStore, effects>>
    /\ UNCHANGED <<slots, finished, records>>
    /\ UNCHANGED notRun

\* run() without the test for standard input in follow mode
RunCheckFollowNoTest ==
    /\ runPc = "check"
    /\ runPc' = "mode"
    /\ UNCHANGED <<runOpts, stdinTty, source, openFails, access_log, runRet,
                   lines, runStore, effects>>
    /\ UNCHANGED <<slots, finished, records>>
    /\ UNCHANGED notRun

\* if opts.follow && access_log == STDIN { return Err(..) }
RunCheckFollow ==
    /\ runPc = "check"
    /\ IF runOpts.follow /\ access_log = STDIN
       THEN RunReturn("ConfigError")
       ELSE runPc' = "mode" /\ UNCHANGED runRet
    /\ UNCHANGED <<runOpts, stdinTty, source, openFails, access_log,
                   lines, runStore, effects>>
    /\ UNCHANGED <<slots, finished, records>>
    /\ UNCHANGED notRun

\* if opts.follow { return tail(..) }: continuous mode takes over
RunTail ==
    /\ runPc = "mode"
    /\ runOpts.follow
    /\ runPc' = "tail"
    /\ effects' = Append(effects, "tail")
    /\ UNCHANGED <<runOpts, stdinTty, source, openFails, access_log, runRet,
                   lines, runStore>>
    /\ UNCHANGED <<slots, finished, records>>
    /\ UNCHANGED notRun

\* let input = input_source(access_log)?
RunOpen ==
    /\ runPc = "mode"
    /\ ~runOpts.follow
    /\ IF access_log = STDIN
       THEN /\ effects' = Append(effects, "stdin")
            /\ runPc' = "read"
            /\ UNCHANGED runRet
       ELSE /\ effects' = Append(effects, "open")
            /\ IF openFails
               THEN RunReturn("IoError")
               ELSE runPc' = "read" /\ UNCHANGED runRet
    /\ UNCHANGED <<runOpts, stdinTty, source, openFails, access_log,
                   lines, runStore>>
    /\ UNCHANGED <<slots, finished, records>>
    /\ UNCHANGED notRun

\* input.lines().filter_map(|l| l.ok()).collect()
RunReadLines ==
    /\ runPc = "read"
    /\ LET oks == SelectSeq(source, LAMBDA l : l.ok)
       IN  lines' = [i \in 1..Len(oks) |-> oks[i].text]
    /\ effects' = Append(effects, "read")
    /\ runPc' = "parse"
    /\ UNCHANGED <<runOpts, stdinTty, source, openFails, access_log, runRet,
                   runStore>>
    /\ UNCHANGED <<slots, finished, records>>
    /\ UNCHANGED notRun

\* what a worker has not yet worked on, and what it makes of a line
Todo == [done |-> FALSE, some |-> FALSE, record |-> <<>>]
Extracted(m, fields) ==
    [done |-> TRUE, some |-> m.some,
     record |-> IF m.some THEN Record(m.c, fields) ELSE <<>>]

\* the options as structopt defaults them
DefaultOptions ==
    [group_by |-> REQUEST_PATH, having |-> 1, order_by |-> "count", limit |-> 10]

\* format_to_pattern, generate_processor, and parse_input up to
\* lines.par_iter(): the lines are handed to the workers
RunParse ==
    /\ runPc = "parse"
    /\ slots' = [i \in 1..Len(lines) |-> Todo]
    /\ effects' = Append(effects, "store")
    /\ runPc' = "extract"
    /\ UNCHANGED <<runOpts, stdinTty, source, openFails, access_log, runRet,
                   lines, finished, records, runStore>>
    /\ UNCHANGED notRun

\* a worker runs the closure of filter_map on line i; the workers take
\* the lines in any order
WorkerExtract(i) ==
    /\ runPc = "extract"
    /\ i \in DOMAIN slots
    /\ ~slots[i].done
    /\ slots' = [slots EXCEPT ![i] =
                    Extracted(Captures(format_to_pattern(OptsFormat), lines[i]),
                              default_processor(DefaultOptions).fields)]
    /\ finished' = Append(finished, i)
    /\ UNCHANGED <<runOpts, stdinTty, source, openFails, access_log, runPc, runRet,
                   lines, records, runStore, effects>>
    /\ UNCHANGED notRun

\* the records of the slots whose index is listed in `order`
RECURSIVE RecordsIn(_, _)
RecordsIn(order, sl) ==
    IF order = <<>> THEN <<>>
    ELSE (IF sl[Head(order)].some THEN <<sl[Head(order)].record>> ELSE <<>>)
            \o RecordsIn(Tail(order), sl)

\* a collect that takes the records in the order the workers finished
RunInsertAsFinished ==
    /\ runPc = "extract"
    /\ \A i \in DOMAIN slots : slots[i].done
    /\ records' = RecordsIn(finished, slots)
    /\ runStore' = records'
    /\ effects' = Append(effects, "insert")
    /\ runPc' = "report"
    /\ UNCHANGED <<runOpts, stdinTty, source, openFails, access_log, runRet,
                   lines, slots, finished>>
    /\ UNCHANGED notRun

\* .collect() and processor.process(records): once every worker is done
\* the records are collected in the order of the lines and inserted
RunInsert ==
    /\ runPc = "extract"
    /\ \A i \in DOMAIN slots : slots[i].done
    /\ records' = RecordsIn([i \in 1..Len(slots) |-> i], slots)
    /\ runStore' = records'
    /\ effects' = Append(effects, "insert")
    /\ runPc' = "report"
    /\ UNCHANGED <<runOpts, stdinTty, source, openFails, access_log, runRet,
                   lines, slots, finished>>
    /\ UNCHANGED notRun

\* processor.report(..)
RunReport ==
    /\ runPc = "report"
    /\ effects' = Append(effects, "report")
    /\ RunReturn("Ok")
    /\ UNCHANGED <<runOpts, stdinTty, source, openFails, access_log,
                   lines, runStore>>
    /\ UNCHANGED <<slots, finished, records>>
    /\ UNCHANGED notRun

RunNext ==
    \/ RunResolve
    \/ RunCheckFollow
    \/ RunTail
    \/ RunOpen
    \/ RunReadLines
    \/ RunParse
    \/ \E i \in DOMAIN slots : WorkerExtract(i)
    \/ RunInsert
    \/ RunReport

----------------------------------------------------------------------------
(* The specifications. Each drives one part of the program and leaves the  *)
(* state of the other parts idle.                                          *)

\* the templates the format compiler is driven with: literal text and
\* $name directives over a small alphabet, and the built-in template
TemplateChars == {"$", "a", "b", " ", "["}
Templates == SeqsUpTo(TemplateChars, MaxTemplateLen) \cup {LOG_FORMAT_COMBINED}

FmtIdle ==
    /\ template = <<>>
    /\ fmtPc = "idle"
    /\ matcher = NoResult
    /\ variables = NoText

TailIdle == TailStart("idle")

\* ---- the extraction of one record

CombinedNames ==
    {"remote_addr", "remote_user", "time_local", "request", "status",
     "body_bytes_sent", "http_referer", "http_user_agent"}

\* the captures of a line matched by the combined pattern whose status
\* capture is `status`
CapturesWith(status) ==
    [n \in CombinedNames |->
        IF n = "status" THEN status
        ELSE IF n = "body_bytes_sent" THEN <<"5">>
        ELSE IF n = "request" THEN <<"G","E","T"," ","/">>
        ELSE <<"-">>]

\* status captures: digits, a sign, a character that is no digit; and
\* the captures of a matcher that has no status group
StatusChars == {"0", "2", "4", "6", "+", "x"}
ExtractCaptures ==
    {CapturesWith(s) : s \in SeqsUpTo(StatusChars, MaxStatusLen)}
        \cup {[n \in CombinedNames \ {"status"} |-> <<"-">>]}
ExtractFields == {<<STATUS_TYPE, BYTES_SENT, REQUEST_PATH>>, <<"status", STATUS_TYPE>>}

\* the line of the test of nginx.rs
TestLine ==
    <<"6","6",".","2","4","9",".","6","5",".","3"," ","-"," ","-"," ",
      "[","0","6","/","N","o","v","/","2","0","1","4",":","1","9",":","1","1",
      ":","2","4"," ","+","0","6","0","0","]"," ",
      "\"","G","E","T"," ","/"," ","H","T","T","P","/","1",".","1","\""," ",
      "2","0","0"," ","4","2","2","3"," ","\"","-","\""," ",
      "\"","U","s","e","r","-","A","g","e","n","t","\"">>

\* the lines the closure is driven with: lines in the combined layout,
\* alone or with text before and after, and lines that are not
ExtractLines ==
    {TestLine, GoodLine, <<"z", " ">> \o GoodLine \o <<" ", "z">>,
     <<>>, <<"x">>, SubSeq(GoodLine, 1, Len(GoodLine) - 1),
     SubSeq(TestLine, 1, 60)}

ExtractIdle ==
    /\ exLine = <<>>
    /\ captures = <<>>
    /\ exFields = <<>>
    /\ record = <<>>
    /\ exPc = "idle"

\* the closure starts with a line; to cover the status captures it also
\* starts right after the match, with the captures drawn
ExtractInit ==
    /\ exFields \in ExtractFields
    /\ record = <<>>
    /\ \/ /\ exPc = "line"
          /\ exLine \in ExtractLines
          /\ captures = <<>>
       \/ /\ exPc = "matched"
          /\ exLine = <<>>
          /\ captures \in ExtractCaptures

\* ---- run()

AccessLogs == {NoLog, SomeLog(STDIN), SomeLog("access.log")}
\* a second line in the combined layout: another request, status 404
OtherLine == [GoodLine EXCEPT ![16] = "a", ![19] = "4", ![21] = "4"]
SourceItems == {ReadOk(GoodLine), ReadOk(OtherLine), ReadOk(<<"x">>), ReadErr}

RunStart(pc) ==
    /\ access_log = ""
    /\ runPc = pc
    /\ runRet = "none"
    /\ lines = <<>>
    /\ slots = <<>>
    /\ finished = <<>>
    /\ records = <<>>
    /\ runStore = <<>>
    /\ effects = <<>>

RunIdle ==
    /\ runOpts = [access_log |-> NoLog, follow |-> FALSE]
    /\ stdinTty = TRUE
    /\ source = <<>>
    /\ openFails = FALSE
    /\ RunStart("idle")

RunInit ==
    /\ runOpts \in [access_log : AccessLogs, follow : BOOLEAN]
    /\ stdinTty \in BOOLEAN
    /\ source \in SeqsUpTo(SourceItems, MaxSourceLen)
    /\ openFails \in BOOLEAN
    /\ RunStart("resolve")

\* ---- processor, queries and report

NoProcessor == [fields |-> <<>>, queries |-> <<>>]

\* --having, --limit, and the defaults of --group-by and --order-by
Havings == {0, 1, 2, 3}
Limits == {0, 1, 2, 10}
QueryOptions ==
    [group_by : {REQUEST_PATH}, having : Havings, order_by : {"count"}, limit : Limits]

Subcommands ==
    {[name |-> "default", fields |-> <<>>]}
        \cup {[name |-> "top", fields |-> fs] :
                fs \in {<<REQUEST_PATH>>, <<STATUS_TYPE>>,
                        <<REQUEST_PATH, STATUS_TYPE>>, <<STATUS_TYPE, REQUEST_PATH>>}}
        \cup {[name |-> "print", fields |-> fs] :
                fs \in {<<REQUEST_PATH>>, <<STATUS_TYPE, REQUEST_PATH>>}}

QueryStart(pc) ==
    /\ processor = NoProcessor
    /\ table = EmptyBag
    /\ results = <<>>
    /\ output = <<>>
    /\ qPc = pc

QueryIdle ==
    /\ qOpts = DefaultOptions
    /\ subcommand = [name |-> "default", fields |-> <<>>]
    /\ QueryStart("idle")

\* --having is drawn for the default queries, the only ones that use it
QueryInit ==
    /\ qOpts \in QueryOptions
    /\ subcommand \in Subcommands
    /\ subcommand.name # "default" => qOpts.having = 1
    /\ QueryStart("start")


\* ---- generate_processor: Processor::new and initialize

\* Field arguments that are not one plain name: one argument that holds
\* two names and a comma, and one that holds a name and a type
TWO_NAMES == "status_type, request_path"
TYPED_NAME == "status text"

\* The SQL tokens of the text of a field argument, as SQLite reads it when
\* the text is pasted into a statement
SqlTokens(field) ==
    CASE field = "" -> <<>>
      [] field = TWO_NAMES -> <<STATUS_TYPE, ",", REQUEST_PATH>>
      [] field = TYPED_NAME -> <<"status", "text">>
      [] OTHER -> <<field>>

\* join(", ") of texts, in tokens
RECURSIVE JoinTokens(_)
JoinTokens(parts) ==
    IF parts = <<>> THEN <<>>
    ELSE IF Len(parts) = 1 THEN parts[1]
    ELSE parts[1] \o <<",">> \o JoinTokens(Tail(parts))

\* Processor::new: columns and placeholders are built from the fields
ProcessorNew(fields, queries) ==
    [columns |-> JoinTokens([i \in 1..Len(fields) |-> SqlTokens(fields[i])]),
     fields |-> fields,
     placeholders |->
        JoinTokens([i \in 1..Len(fields) |-> <<":">> \o SqlTokens(fields[i])]),
     queries |-> queries]

NoP == [columns |-> <<>>, fields |-> <<>>, placeholders |-> <<>>, queries |-> <<>>]

\* the items of a parenthesised SQL list: the tokens between the commas
RECURSIVE SqlList(_, _)
SqlList(toks, item) ==
    IF toks = <<>> THEN <<item>>
    ELSE IF Head(toks) = "," THEN <<item>> \o SqlList(Tail(toks), <<>>)
    ELSE SqlList(Tail(toks), Append(item, Head(toks)))

\* "CREATE TABLE log ({columns})": each item is a column name and an
\* optional type name; an empty item is a syntax error and a column name
\* given twice is an error
CreateTableOk(columns) ==
    LET defs == SqlList(columns, <<>>)
    IN  /\ \A i \in DOMAIN defs : defs[i] # <<>>
        /\ \A i, j \in DOMAIN defs : i # j => defs[i][1] # defs[j][1]

TableColumns(columns) ==
    LET defs == SqlList(columns, <<>>)
    IN  [i \in DOMAIN defs |-> defs[i][1]]

\* "CREATE INDEX log_idx{i} on log ({field})": each item is the name of
\* a column of the table
CreateIndexOk(field, tableColumns) ==
    LET cols == SqlList(SqlTokens(field), <<>>)
    IN  \A i \in DOMAIN cols :
            /\ Len(cols[i]) = 1
            /\ \E k \in DOMAIN tableColumns : tableColumns[k] = cols[i][1]

\* generate_processor: log_fields, log_queries and Processor::new
GenNew ==
    /\ genPc = "start"
    /\ LET fq == generate_processor(genOpts, genCommand)
       IN  genProcessor' = ProcessorNew(fq.fields, fq.queries)
    /\ genPc' = "initialize"
    /\ UNCHANGED <<genOpts, genCommand, logTable, indexes, genRet, genRecord>>
    /\ UNCHANGED notGen

\* initialize: the table is created, or the error is returned
GenCreateTable ==
    /\ genPc = "initialize"
    /\ IF CreateTableOk(genProcessor.columns)
       THEN /\ logTable' = TableColumns(genProcessor.columns)
            /\ genPc' = "index"
            /\ UNCHANGED genRet
       ELSE /\ genRet' = "Err"
            /\ genPc' = "failed"
            /\ UNCHANGED logTable
    /\ UNCHANGED <<genOpts, genCommand, genProcessor, indexes, genRecord>>
    /\ UNCHANGED notGen

\* initialize: the index of the next field is created, or the error is
\* returned
GenCreateIndex ==
    /\ genPc = "index"
    /\ indexes < Len(genProcessor.fields)
    /\ IF CreateIndexOk(genProcessor.fields[indexes + 1], logTable)
       THEN /\ indexes' = indexes + 1
            /\ UNCHANGED <<genRet, genPc>>
       ELSE /\ genRet' = "Err"
            /\ genPc' = "failed"
            /\ UNCHANGED indexes
    /\ UNCHANGED <<genOpts, genCommand, genProcessor, logTable, genRecord>>
    /\ UNCHANGED notGen

\* initialize returns Ok, and generate_processor returns the Processor
GenBuilt ==
    /\ genPc = "index"
    /\ indexes = Len(genProcessor.fields)
    /\ genRet' = "Ok"
    /\ genPc' = "built"
    /\ UNCHANGED <<genOpts, genCommand, genProcessor, logTable, indexes, genRecord>>
    /\ UNCHANGED notGen

\* parse_input: the record of a matched line, for processor.fields
GenExtract ==
    /\ genPc = "built"
    /\ genRecord' = Record(CapturesWith(<<"2", "0", "0">>), genProcessor.fields)
    /\ genPc' = "extracted"
    /\ UNCHANGED <<genOpts, genCommand, genProcessor, logTable, indexes, genRet>>
    /\ UNCHANGED notGen

GenNext ==
    \/ GenNew
    \/ GenCreateTable
    \/ GenCreateIndex
    \/ GenBuilt
    \/ GenExtract

\* the field arguments, the subcommands and --group-by
FieldArgs == {REQUEST_PATH, STATUS_TYPE, "status", "", TWO_NAMES, TYPED_NAME}
GenCommands ==
    {[name |-> "default", fields |-> <<>>, query |-> ""]}
        \cup {[name |-> n, fields |-> fs, query |-> ""] :
                n \in {"avg", "sum", "print", "top"},
                fs \in SeqsUpTo(FieldArgs, MaxFields)}
        \cup {[name |-> "query", fields |-> fs, query |-> "SELECT 1"] :
                fs \in SeqsUpTo(FieldArgs, MaxFields)}
GroupBys == {REQUEST_PATH, STATUS_TYPE, "status"}

GenStart(pc) ==
    /\ genProcessor = NoP
    /\ logTable = <<>>
    /\ indexes = 0
    /\ genRet = "none"
    /\ genRecord = <<>>
    /\ genPc = pc

GenIdle ==
    /\ genOpts = DefaultOptions
    /\ genCommand = [name |-> "default", fields |-> <<>>, query |-> ""]
    /\ GenStart("idle")

GenInit ==
    /\ genOpts \in {[DefaultOptions EXCEPT !.group_by = g] : g \in GroupBys}
    /\ genCommand \in GenCommands
    /\ GenStart("start")

FmtInit ==
    /\ template \in Templates
    /\ fmtPc = "input"
    /\ matcher = NoResult
    /\ variables = NoText

\* format_to_pattern(&opts.format), as tail and run call it
CompileFormat ==
    /\ fmtPc = "input"
    /\ matcher' = format_to_pattern(template)
    /\ fmtPc' = "compiled"
    /\ UNCHANGED <<template, variables>>
    /\ UNCHANGED notFmt

\* info_subcommand: available_variables(&opts.format)
ListVariables ==
    /\ fmtPc = "compiled"
    /\ variables' = available_variables(template)
    /\ fmtPc' = "listed"
    /\ UNCHANGED <<template, matcher>>
    /\ UNCHANGED notFmt

FmtNext == CompileFormat \/ ListVariables

FormatInit == FmtInit /\ TailIdle /\ ExtractIdle /\ RunIdle /\ QueryIdle /\ GenIdle

SpecFormat == FormatInit /\ [][FmtNext]_vars

\* continuous mode
Init == TailInit /\ FmtIdle /\ ExtractIdle /\ RunIdle /\ QueryIdle /\ GenIdle

Next == TailNext

Spec == Init /\ [][Next]_vars

\* Both threads are scheduled, and the ticker fires every `interval`
\* seconds, so a step of a thread that stays possible is eventually taken.
\* Nothing obliges the writer to write, the user to interrupt or an
\* operation to fail.
FairSpec ==
    /\ Spec
    /\ WF_vars(MainStep)
    /\ WF_vars(TailerStep)

\* the extraction of a record from the captures of a matched line
ExtractNext == MatchLine \/ ExtractRecord

ExtractionInit == ExtractInit /\ FmtIdle /\ TailIdle /\ RunIdle /\ QueryIdle /\ GenIdle

SpecExtract == ExtractionInit /\ [][ExtractNext]_vars

\* run(): the choice of the mode, and static mode
StaticInit == RunInit /\ FmtIdle /\ TailIdle /\ ExtractIdle /\ QueryIdle /\ GenIdle

SpecRun == StaticInit /\ [][RunNext]_vars

\* the program in either mode: continuous (tail) or static (run)
ModesInit == Init \/ StaticInit

\* run() calls tail() or reads the input, never both
ContinuousStep == mainPc # "idle" /\ Next

StaticStep == runPc # "idle" /\ RunNext

ModesNext == ContinuousStep \/ StaticStep

SpecModes == ModesInit /\ [][ModesNext]_vars

\* a Processor: its queries, inserts and reports
ProcessorInit == QueryInit /\ FmtIdle /\ TailIdle /\ ExtractIdle /\ RunIdle /\ GenIdle

SpecQuery == ProcessorInit /\ [][QueryNext]_vars

\* generate_processor for a subcommand, and the record of a matched line
BuildInit ==
    GenInit /\ FmtIdle /\ TailIdle /\ ExtractIdle /\ RunIdle /\ QueryIdle

SpecBuild == BuildInit /\ [][GenNext]_vars


----------------------------------------------------------------------------
(* C1: in continuous mode with no I/O error, once the interrupt handler    *)
(* has set `running` to false, tail() eventually returns (the main loop    *)
(* is left, the stop send is taken by the Tailer, the join completes);     *)
(* when it has returned and nothing failed, it returned Ok and the Tailer  *)
(* returned Ok; and while the stop send is pending the Tailer makes at     *)
(* most one poll attempt before its stop check.                            *)
C1_StopsAfterInterrupt ==
    /\ (~running) ~> (mainPc = "returned")
    /\ [](mainPc = "returned" /\ ~ioError =>
            mainRet = "Ok" /\ tailerPc = "done" /\ tailerRet = "Ok" /\ ~running)
    /\ [](pollsAfterStop <= 1)

\* tail() has returned Ok after an interrupt, the Tailer having made one
\* more poll attempt while the stop send was pending
C1_StoppedOk ==
    /\ mainPc = "returned"
    /\ mainRet = "Ok"
    /\ tailerRet = "Ok"
    /\ ~running
    /\ ~ioError
    /\ pollsAfterStop = 1

(* C2: if the Tailer fails with an I/O error while polling, tail() returns *)
(* exactly that error (obtained by the join), not a channel error in its   *)
(* place and not Ok. (Runs in which the main loop itself failed on an      *)
(* insert or a report are left aside.)                                     *)
C2_TailerErrorPropagates ==
    (mainPc = "returned" /\ tailerRet = "IoError"
        /\ mainRet \notin {"StoreError", "ReportError", "SetupError"})
    => mainRet = "IoError"

\* the Tailer has failed while tail() was still in its loop
C2_TailerFailed ==
    /\ tailerRet = "IoError"
    /\ mainPc = "select"

(* C3: no byte below the end-of-file offset captured at attach is ever     *)
(* forwarded or inserted: every line sent, received or stored is the text  *)
(* of file bytes at or after that offset, and the Tailer's offset never    *)
(* falls below it.                                                         *)
FromAfterAttach(m) ==
    /\ m.off >= attachLen
    /\ m.off + Len(m.text) <= Len(file)
    /\ m.text = SubSeq(file, m.off + 1, m.off + Len(m.text))

C3_NoReplayOfOldContent ==
    /\ tailerPc # "unborn" => len >= attachLen
    /\ \A i \in 1..Len(lineCh) : FromAfterAttach(lineCh[i])
    /\ \A i \in 1..Len(received) : FromAfterAttach(received[i])
    /\ \A i \in 1..Len(store) : FromAfterAttach(store[i])

\* the file had content at attach, and a record of a later line is stored
C3_StoredAfterAttach ==
    /\ attachLen > 0
    /\ store # <<>>

----------------------------------------------------------------------------
(* C4: for any template of literal text and $name directives, the capture- *)
(* group names of format_to_pattern(template) are, in order, exactly the   *)
(* directive names of the template, each once, and available_variables     *)
(* lists exactly those names.                                              *)
C4_CaptureNamesAreDirectives ==
    /\ fmtPc \in {"compiled", "listed"} =>
          /\ matcher.ok
          /\ GroupNames(matcher.toks) = DirectiveNames(template)
          /\ NoDuplicates(GroupNames(matcher.toks))
    /\ fmtPc = "listed" =>
          /\ variables.ok
          /\ variables.text = Join(DirectiveNames(template), <<",", " ">>)

\* the built-in template itself compiles to its eight directive names
C4_BuiltinCompiled ==
    /\ fmtPc = "listed"
    /\ template = LOG_FORMAT_COMBINED
    /\ Len(GroupNames(matcher.toks)) = 8
    /\ GroupNames(matcher.toks) = DirectiveNames(template)

----------------------------------------------------------------------------
\* the number of rows of the table whose column f has the value v
ValueCount(f, v) ==
    LET S == {r \in BagToSet(table) : r[f] = v}
    IN  IF S = {} THEN 0 ELSE BagCardinality([r \in S |-> table[r]])

\* the values of column f that some row of the table has
ValuesIn(f) == {r[f] : r \in BagToSet(table)}

(* C5: with no subcommand, a group of the group-by field is in the result  *)
(* of the detailed query if and only if its row count is at least the      *)
(* having threshold (read off a report whose limit keeps every group).     *)
C5_HavingIsCountThreshold ==
    (qPc = "reported" /\ subcommand.name = "default"
        /\ qOpts.limit >= Cardinality(ValuesIn(qOpts.group_by))) =>
        \A v \in ValuesIn(qOpts.group_by) :
            (\E k \in DOMAIN results[2] : results[2][k].key = <<v>>)
                <=> ValueCount(qOpts.group_by, v) >= qOpts.having

\* a group with fewer rows than the threshold is in the detailed result
C5_BelowThresholdReturned ==
    /\ qPc = "reported"
    /\ subcommand.name = "default"
    /\ qOpts.having = 2
    /\ \E k \in DOMAIN results[2] :
          ValueCount(qOpts.group_by, results[2][k].key[1]) = 1

----------------------------------------------------------------------------
\* the number of header lines report() wrote for query i
HeaderCount(i) ==
    Cardinality({k \in DOMAIN output :
                    output[k].kind = "header" /\ output[k].query = i})

(* C6: after every report, the output has exactly one header line for     *)
(* each configured query, also for one whose result set has no rows, and  *)
(* the result sets appear in the order of the queries.                    *)
C6_OneHeaderPerResultSet ==
    qPc = "reported" =>
        /\ \A i \in DOMAIN processor.queries : HeaderCount(i) = 1
        /\ \A k1, k2 \in DOMAIN output :
              k1 < k2 => output[k1].query <= output[k2].query

\* a report in which a query returned no rows and no header was written
C6_EmptyResultSetNoHeader ==
    /\ qPc = "reported"
    /\ \E i \in DOMAIN processor.queries : results[i] = <<>> /\ HeaderCount(i) = 0

----------------------------------------------------------------------------
(* C7: in static mode, once the lines of a source with a read failure     *)
(* have been read, run() has returned an I/O error, and neither an insert *)
(* nor a report was made from the lines that could be read.               *)
C7_ReadFailureTerminatesRun ==
    ((\E i \in DOMAIN source : ~source[i].ok) /\ "read" \in Range(effects)) =>
        /\ runPc = "returned"
        /\ runRet = "IoError"
        /\ "insert" \notin Range(effects)
        /\ "report" \notin Range(effects)

\* run() returned Ok with a report although a read of the source failed
C7_PartialInputReported ==
    /\ \E i \in DOMAIN source : ~source[i].ok
    /\ \E i \in DOMAIN source : source[i].ok
    /\ runPc = "returned"
    /\ runRet = "Ok"
    /\ "report" \in Range(effects)
    /\ Len(lines) < Len(source)

----------------------------------------------------------------------------
(* C8: when follow mode is requested and the resolved source is standard  *)
(* input, run() does nothing to the outside (no file opened, no store     *)
(* created, no Tailer spawned, no line read) and returns a configuration  *)
(* error; continuous mode is entered only with a named file.              *)
C8_FollowRefusesStdin ==
    /\ (runOpts.follow /\ access_log = STDIN) =>
          /\ effects = <<>>
          /\ runPc \in {"check", "returned"}
          /\ runPc = "returned" => runRet = "ConfigError"
    /\ runPc = "tail" => (access_log # STDIN /\ runOpts.access_log.some)

\* follow mode on redirected standard input was refused
C8_StdinFollowRefused ==
    /\ runOpts.follow
    /\ ~runOpts.access_log.some
    /\ access_log = STDIN
    /\ runPc = "returned"
    /\ runRet = "ConfigError"
    /\ effects = <<>>

----------------------------------------------------------------------------
\* the text is an optional "+" and then digits only, at least n of them
IsNumber(s, n) ==
    LET ds == IF s # <<>> /\ s[1] = "+" THEN Tail(s) ELSE s
    IN  Len(ds) >= n /\ Len(ds) >= 1 /\ \A j \in DOMAIN ds : ds[j] \in Digits

(* C9 (as the program has it): the status class of a matched line is the  *)
(* status capture parsed as a 16-bit unsigned integer and divided by 100: *)
(* it lies in 0..655; it is 0 when the capture is absent, empty, not a    *)
(* number, a number below 100, or a number of more than five digits; for  *)
(* three digits it is the first digit; and it is above 5 only for a       *)
(* number of at least three digits.                                       *)
C9_StatusClassIsU16Hundreds ==
    exPc = "extracted" =>
        \A i \in DOMAIN record :
            exFields[i] = STATUS_TYPE =>
                LET v == record[i].value
                    s == IF "status" \in DOMAIN captures
                         THEN captures["status"] ELSE <<>>
                IN  /\ v \in 0..655
                    /\ ~IsNumber(s, 1) => v = 0
                    /\ (IsNumber(s, 1) /\ Len(s) <= 2) => v = 0
                    /\ (Len(s) = 3 /\ IsNumber(s, 3)) => v = DigitValue(s[1])
                    /\ (Len(s) > 5 /\ IsNumber(s, Len(s)) /\ s[1] # "0") => v = 0
                    /\ v > 5 => IsNumber(s, 3)

(* C9 (as stated): the status class of a matched line is always one of    *)
(* 0, 1, 2, 3, 4, 5.                                                      *)
C9_StatusClassInZeroToFive ==
    exPc = "extracted" =>
        \A i \in DOMAIN record :
            exFields[i] = STATUS_TYPE => record[i].value \in 0..5

\* the status capture "600" was extracted as class 6
C9_SixHundredIsClassSix ==
    /\ exPc = "extracted"
    /\ "status" \in DOMAIN captures
    /\ captures["status"] = <<"6", "0", "0">>
    /\ \E i \in DOMAIN record : exFields[i] = STATUS_TYPE /\ record[i].value = 6

----------------------------------------------------------------------------
\* the values of column f have pairwise different counts
DistinctCounts(f) ==
    \A v, w \in ValuesIn(f) : v # w => ValueCount(f, v) # ValueCount(f, w)

(* C10: the top subcommand has one query per requested field, in field    *)
(* order; after a report, for a field with D distinct values of distinct  *)
(* counts and limit L the result set has min(L, D) rows, each a value of  *)
(* the field with its count, in non-increasing order of count, and no     *)
(* value left out has a larger count than a value returned.               *)
C10_TopReturnsMostFrequent ==
    (subcommand.name = "top" /\ qPc # "start") =>
        /\ Len(processor.queries) = Len(subcommand.fields)
        /\ \A i \in DOMAIN subcommand.fields :
              LET f == subcommand.fields[i]
                  D == Cardinality(ValuesIn(f))
                  L == qOpts.limit
              IN  /\ processor.queries[i].columns = <<f, "count">>
                  /\ (qPc = "reported" /\ DistinctCounts(f)) =>
                        LET rs == results[i]
                        IN  /\ Len(rs) = IF L < D THEN L ELSE D
                            /\ \A k \in DOMAIN rs :
                                  /\ rs[k].key[1] \in ValuesIn(f)
                                  /\ rs[k].count = ValueCount(f, rs[k].key[1])
                            /\ \A k1, k2 \in DOMAIN rs :
                                  k1 < k2 => rs[k1].count > rs[k2].count
                            /\ \A v \in ValuesIn(f) :
                                  (\A k \in DOMAIN rs : rs[k].key[1] # v) =>
                                      \A k \in DOMAIN rs : ValueCount(f, v) < rs[k].count

\* a top report that the limit cut: two values of distinct counts, limit 1
C10_TopLimited ==
    /\ subcommand.name = "top"
    /\ qPc = "reported"
    /\ qOpts.limit = 1
    /\ LET f == subcommand.fields[1]
       IN  /\ Cardinality(ValuesIn(f)) = 2
           /\ DistinctCounts(f)
           /\ Len(results[1]) = 1

----------------------------------------------------------------------------
(* C11: after a report of the print subcommand, the result set of the     *)
(* print query has at most `limit` rows.                                  *)
C11_PrintWithinLimit ==
    (subcommand.name = "print" /\ qPc = "reported") =>
        Len(results[1]) <= qOpts.limit

\* a print report with limit 1 whose result set has two rows
C11_PrintOverLimit ==
    /\ subcommand.name = "print"
    /\ qPc = "reported"
    /\ qOpts.limit = 1
    /\ Len(results[1]) = 2

----------------------------------------------------------------------------
\* the text of line that stands between the first occurrence of the
\* text `before` and the next occurrence of the text `after`
Between(line, before, after) ==
    LET b == CHOOSE i \in 1..Len(line) :
                /\ TextAt(line, i, before)
                /\ \A j \in 1..(i - 1) : ~TextAt(line, j, before)
        from == b + Len(before)
        a == CHOOSE i \in from..(Len(line) + 1) :
                /\ TextAt(line, i, after)
                /\ \A j \in from..(i - 1) : ~TextAt(line, j, after)
    IN  SubSeq(line, from, a - 1)

(* C13: the matcher compiled from the built-in combined template matches  *)
(* the test line and the model's line in the combined layout; the         *)
(* captures are the eight directives, and request, status and             *)
(* body_bytes_sent hold the text between their literal boundaries: for    *)
(* the test line GET / HTTP/1.1, 200 and 4223.                            *)
C13_CombinedLineCaptured ==
    (exPc # "line" /\ exLine \in {TestLine, GoodLine}) =>
        /\ exPc \in {"matched", "extracted"}
        /\ DOMAIN captures = CombinedNames
        /\ captures["request"] = Between(exLine, <<"]", " ", QUOTE>>, <<QUOTE, " ">>)
        /\ captures["status"] = Between(exLine, <<QUOTE, " ">>, <<" ">>)
        /\ exLine = TestLine =>
              /\ captures["request"] =
                    <<"G","E","T"," ","/"," ","H","T","T","P","/","1",".","1">>
              /\ captures["status"] = <<"2","0","0">>
              /\ captures["body_bytes_sent"] = <<"4","2","2","3">>
              /\ captures["remote_addr"] =
                    <<"6","6",".","2","4","9",".","6","5",".","3">>
              /\ captures["http_user_agent"] =
                    <<"U","s","e","r","-","A","g","e","n","t">>

\* the test line was matched and its record extracted
C13_TestLineMatched ==
    /\ exLine = TestLine
    /\ exPc = "extracted"
    /\ captures["status"] = <<"2","0","0">>

----------------------------------------------------------------------------
\* the indices of the lines a worker made a record of, and the k-th of them
MatchedSlots == {i \in DOMAIN slots : slots[i].done /\ slots[i].some}
KthMatched(k) ==
    CHOOSE i \in MatchedSlots : Cardinality({j \in MatchedSlots : j <= i}) = k

(* C12: in static mode the records handed to the store do not depend on   *)
(* the order in which the extraction workers finish: what a worker makes  *)
(* of a line depends on the line only (for the model's combined line it   *)
(* is status class 2, 5 bytes and the request GET /), and the records     *)
(* collected and inserted are those of the matched lines in the order of  *)
(* the lines.                                                             *)
C12_RecordsIndependentOfWorkers ==
    /\ \A i, j \in DOMAIN slots :
          (slots[i].done /\ slots[j].done /\ lines[i] = lines[j]) => slots[i] = slots[j]
    /\ \A i \in DOMAIN slots :
          (slots[i].done /\ lines[i] = GoodLine) =>
              /\ slots[i].some
              /\ slots[i].record =
                    <<[name |-> <<":", "status_type">>, value |-> 2],
                      [name |-> <<":", "bytes_sent">>, value |-> 5],
                      [name |-> <<":", "request_path">>,
                       value |-> <<"G", "E", "T", " ", "/">>]>>
    /\ "insert" \in Range(effects) =>
          /\ Len(records) = Cardinality(MatchedSlots)
          /\ \A k \in DOMAIN records : records[k] = slots[KthMatched(k)].record
          /\ runStore = records

\* the worker of the second line finished first, and the two different
\* records were inserted in the order of the lines
C12_LaterLineFinishedFirst ==
    /\ finished = <<2, 1>>
    /\ runPc = "returned"
    /\ runRet = "Ok"
    /\ Len(records) = 2
    /\ records[1] # records[2]
    /\ records[1] = slots[1].record

----------------------------------------------------------------------------
\* the lines the Tailer has sent so far, in the order sent
Forwarded == received \o lineCh

\* the message is one whole line of the file: it starts where a line
\* starts, holds no terminator, and the terminator follows it
CompleteLine(m) ==
    /\ m.off = attachLen \/ (m.off > 0 /\ file[m.off] = NL)
    /\ m.text = SubSeq(file, m.off + 1, m.off + Len(m.text))
    /\ \A k \in DOMAIN m.text : m.text[k] # NL
    /\ m.off + Len(m.text) + 1 <= Len(file)
    /\ file[m.off + Len(m.text) + 1] = NL

(* C14: every string the Tailer sends is one complete, terminator-ended   *)
(* line appended after attach, without its terminator, also when the      *)
(* writer appends a line in several writes; the lines are sent once each  *)
(* and in file order.                                                     *)
C14_OnlyCompleteLinesForwarded ==
    /\ \A k \in DOMAIN Forwarded : CompleteLine(Forwarded[k])
    /\ \A k1, k2 \in DOMAIN Forwarded :
          k1 < k2 => Forwarded[k1].off + Len(Forwarded[k1].text) < Forwarded[k2].off

\* the main loop received a string that is followed in the file by a
\* character of the line's content, not by the terminator
C14_PartialLineForwarded ==
    \E k \in DOMAIN received :
        LET m == received[k]
        IN  /\ m.off + Len(m.text) + 1 <= Len(file)
            /\ file[m.off + Len(m.text) + 1] # NL

----------------------------------------------------------------------------
(* C15: once `running` is false the main loop handles at most one more    *)
(* event (a line or a report tick) and then leaves the loop for the stop  *)
(* send; the interrupt itself changes nothing but the flag, so no insert  *)
(* and no report is cut short.                                            *)
C15_AtMostOneEventAfterCancel ==
    /\ [](eventsAfterCancel <= 1)
    /\ (~running) ~> (mainPc \in {"send", "join", "returned"})
    /\ [][(running /\ ~running') =>
            UNCHANGED <<mainPc, mainRet, lineCh, store, received, tailerPc>>]_vars

\* the flag was cleared while the loop waited: one event was handled
\* after that, and the loop was left
C15_OneEventThenStop ==
    /\ ~running
    /\ eventsAfterCancel = 1
    /\ mainPc = "send"

----------------------------------------------------------------------------
(* C16 (as the program has it): when tail() returns Ok the Tailer has     *)
(* terminated, for Ok comes from the join; when tail() returns an error   *)
(* out of its loop or its stop send, the Tailer is not joined, but it     *)
(* terminates at its next stop check (the dropped stop sender makes the   *)
(* stop arm ready) or at its next send; a Tailer that was spawned is      *)
(* never left polling for ever.                                           *)
C16_TailerEndsAfterReturn ==
    /\ []((mainPc = "returned" /\ mainRet = "Ok") => tailerPc = "done")
    /\ (mainPc = "returned" /\ tailerPc # "unborn") ~> (tailerPc = "done")

(* C16 (as stated): whenever tail() has returned, with Ok or with any     *)
(* error, the Tailer it spawned has already terminated.                   *)
C16_TailerDoneAtReturn ==
    (mainPc = "returned" /\ tailerPc # "unborn") => tailerPc = "done"

\* tail() returned the error of a failed insert, and the Tailer, never
\* joined, has ended at its stop check
C16_EndedAfterErrorReturn ==
    /\ mainPc = "returned"
    /\ mainRet = "StoreError"
    /\ tailerPc = "done"
    /\ tailerRet = "Ok"

----------------------------------------------------------------------------
\* the main loop has been left
LoopLeft == mainPc \in {"send", "join", "returned"}

(* C17 (as the program has it): every line the main loop has received was *)
(* offered to the store (a matching line is a row unless an insert        *)
(* failed); once the loop is left nothing more is received or inserted,   *)
(* and the lines still in the channel stay there; the Tailer makes at     *)
(* most one poll, so sends at most one line, while the stop send is       *)
(* pending, and sends nothing once it has ended.                          *)
C17_ReceivedLinesOffered ==
    /\ [](\A k \in DOMAIN received :
            IsMatch(pattern, received[k].text) =>
                (ioError \/ \E j \in DOMAIN store : store[j] = received[k]))
    /\ [](pollsAfterStop <= 1)
    /\ [][LoopLeft =>
            /\ received' = received
            /\ store' = store
            /\ \/ lineCh' = lineCh
               \/ /\ Len(lineCh') = Len(lineCh) + 1
                  /\ SubSeq(lineCh', 1, Len(lineCh)) = lineCh]_vars
    /\ [][tailerPc = "done" => Len(lineCh') <= Len(lineCh)]_vars

(* C17 (as stated): when tail() has returned Ok the line channel holds no *)
(* line that was sent and never consumed.                                 *)
C17_NoLineLeftAtShutdown ==
    (mainPc = "returned" /\ mainRet = "Ok") => lineCh = <<>>

\* tail() returned Ok while a matching line, sent by the Tailer before it
\* stopped, is in the channel and not in the store
C17_MatchingLineLeft ==
    /\ mainPc = "returned"
    /\ mainRet = "Ok"
    /\ \E k \in DOMAIN lineCh :
          /\ lineCh[k].text = GoodLine
          /\ \A j \in DOMAIN store : store[j] # lineCh[k]

----------------------------------------------------------------------------
\* the text ends with a line in the combined layout (the pattern is not
\* anchored, so text before it does not matter)
InCombinedLayout(text) ==
    \E l \in {GoodLine, OtherLine} :
        /\ Len(text) >= Len(l)
        /\ SubSeq(text, Len(text) - Len(l) + 1, Len(text)) = l

InsertValues == SqlList(genProcessor.placeholders, <<>>)

(* C19: whenever generate_processor has built a Processor, for any         *)
(* subcommand and field arguments, its field list is non-empty and has no  *)
(* field twice, the columns of the table are the field list in order, the  *)
(* insert statement has one value per field, the placeholder ":"+field,    *)
(* in the same order, and the record of a matched line has exactly those   *)
(* placeholder names in that order.                                        *)
C19_SchemaIsFieldList ==
    genPc \in {"built", "extracted"} =>
        /\ genProcessor.fields # <<>>
        /\ \A i, j \in DOMAIN genProcessor.fields : i # j => genProcessor.fields[i] # genProcessor.fields[j]
        /\ logTable = genProcessor.fields
        /\ InsertValues = [i \in DOMAIN genProcessor.fields |-> Placeholder(genProcessor.fields[i])]
        /\ genPc = "extracted" =>
              [i \in DOMAIN genRecord |-> genRecord[i].name] = InsertValues

\* `print "status_type, request_path"`: a Processor was built with one
\* field, its table has two columns, and a record was extracted for it
C19_OneFieldTwoColumns ==
    /\ genPc = "extracted"
    /\ genRet = "Ok"
    /\ genCommand.name = "print"
    /\ genProcessor.fields = <<TWO_NAMES>>
    /\ logTable = <<STATUS_TYPE, REQUEST_PATH>>
    /\ Len(genRecord) = 1

=============================================================================
